---------------------------- MODULE Spec2Model ----------------------------
(***************************************************************************)
(* hours2drupal (src/main.go): CSV ingestion, month grouping and the       *)
(* create-node / create-paragraph / update-node publishing loop of         *)
(* process(), together with the Drupal JSON:API server it talks to.        *)
(*                                                                         *)
(* Text is a sequence of one-character strings, so that trimming, date     *)
(* parsing and date formatting are computed as the Go code computes them.  *)
(***************************************************************************)
EXTENDS Integers, Sequences, FiniteSets, TLC

(***************************************************************************)
(* Bounds of the model.                                                    *)
(***************************************************************************)
MaxFiles == 2
MaxRows == 2
MaxDays == 3
MaxAnomalies == 1

(***************************************************************************)
(* Text helpers: strings.TrimSpace.                                        *)
(***************************************************************************)
IsSpace(c) == c \in {" ", "\t"}

RECURSIVE TrimLeft(_)
TrimLeft(s) ==
  IF s = <<>> THEN <<>>
  ELSE IF IsSpace(Head(s)) THEN TrimLeft(Tail(s)) ELSE s

RECURSIVE TrimRight(_)
TrimRight(s) ==
  IF s = <<>> THEN <<>>
  ELSE IF IsSpace(s[Len(s)]) THEN TrimRight(SubSeq(s, 1, Len(s) - 1)) ELSE s

TrimSpace(s) == TrimRight(TrimLeft(s))

(***************************************************************************)
(* Dates: time.Parse("2006-01-02", s) and the two Format layouts.          *)
(***************************************************************************)
Digits == <<"0", "1", "2", "3", "4", "5", "6", "7", "8", "9">>

IsDigit(c) == \E i \in 1..10 : Digits[i] = c

DigitVal(c) == (CHOOSE i \in 1..10 : Digits[i] = c) - 1

DigitChar(n) == Digits[n + 1]

MonthNames ==
  << <<"J", "a", "n", "u", "a", "r", "y">>,
     <<"F", "e", "b", "r", "u", "a", "r", "y">>,
     <<"M", "a", "r", "c", "h">>,
     <<"A", "p", "r", "i", "l">>,
     <<"M", "a", "y">>,
     <<"J", "u", "n", "e">>,
     <<"J", "u", "l", "y">>,
     <<"A", "u", "g", "u", "s", "t">>,
     <<"S", "e", "p", "t", "e", "m", "b", "e", "r">>,
     <<"O", "c", "t", "o", "b", "e", "r">>,
     <<"N", "o", "v", "e", "m", "b", "e", "r">>,
     <<"D", "e", "c", "e", "m", "b", "e", "r">> >>

IsLeap(y) == (y % 4 = 0) /\ ((y % 100 # 0) \/ (y % 400 = 0))

DaysIn(m, y) ==
  IF m = 2 THEN (IF IsLeap(y) THEN 29 ELSE 28)
  ELSE IF m \in {4, 6, 9, 11} THEN 30 ELSE 31

NoDate == [year |-> 0, month |-> 0, day |-> 0]

\* time.Parse with layout "2006-01-02": four year digits, '-', two month
\* digits, '-', two day digits, nothing after; month 1..12, day within month.
ParseDay(s) ==
  IF /\ Len(s) = 10
     /\ s[5] = "-" /\ s[8] = "-"
     /\ \A i \in {1, 2, 3, 4, 6, 7, 9, 10} : IsDigit(s[i])
  THEN LET y == 1000 * DigitVal(s[1]) + 100 * DigitVal(s[2])
                + 10 * DigitVal(s[3]) + DigitVal(s[4])
           m == 10 * DigitVal(s[6]) + DigitVal(s[7])
           d == 10 * DigitVal(s[9]) + DigitVal(s[10])
       IN IF m \in 1..12 /\ d >= 1 /\ d <= DaysIn(m, y)
          THEN [ok |-> TRUE, date |-> [year |-> y, month |-> m, day |-> d]]
          ELSE [ok |-> FALSE, date |-> NoDate]
  ELSE [ok |-> FALSE, date |-> NoDate]

\* The four zero-padded digits of a year, as Format's "2006" prints them.
YearDigits(y) ==
  << DigitChar((y \div 1000) % 10), DigitChar((y \div 100) % 10),
     DigitChar((y \div 10) % 10), DigitChar(y % 10) >>

\* A variant of the label that leaves the year out.
FormatMonthYear_MonthOnly(d) == MonthNames[d.month]

\* h.Day.Format("January, 2006"): the month group's label.
FormatMonthYear(d) == MonthNames[d.month] \o <<",", " ">> \o YearDigits(d.year)

\* h.Day.Format("2006-01-02").
FormatISO(d) ==
  YearDigits(d.year)
    \o <<"-", DigitChar(d.month \div 10), DigitChar(d.month % 10),
         "-", DigitChar(d.day \div 10), DigitChar(d.day % 10)>>

(***************************************************************************)
(* CSV input.  A file is a sequence of physical lines; a line is blank, a  *)
(* record (a sequence of cells) or text the CSV reader cannot parse.       *)
(***************************************************************************)
ColDay == <<"d", "a", "y">>
ColBuilding ==
  <<"b", "u", "i", "l", "d", "i", "n", "g", " ", "h", "o", "u", "r", "s">>
ColChat == <<"c", "h", "a", "t", " ", "h", "o", "u", "r", "s">>
ColNote == <<"n", "o", "t", "e">>

Nil == [kind |-> "nil"]
ErrNoHeader == [kind |-> "noheader"]
ErrOpen == [kind |-> "open"]
ErrCSV == [kind |-> "csv"]
ErrMissingData(field, line) ==
  [kind |-> "missing", field |-> field, line |-> line]
ErrParseDay(line) == [kind |-> "parseday", line |-> line]

\* csv.Reader.Read: blank lines are skipped, unparsable text is an error, and
\* after the first record every record must have as many fields as the first.
RECURSIVE SkipBlank(_, _)
SkipBlank(lines, pos) ==
  IF pos <= Len(lines) /\ lines[pos].kind = "blank"
  THEN SkipBlank(lines, pos + 1) ELSE pos

CsvRead(lines, pos, fpr) ==
  LET q == SkipBlank(lines, pos) IN
  IF q > Len(lines)
  THEN [res |-> "eof", cells |-> <<>>, at |-> q, fpr |-> fpr]
  ELSE IF lines[q].kind = "bad"
  THEN [res |-> "err", cells |-> <<>>, at |-> q, fpr |-> fpr]
  ELSE IF fpr # 0 /\ Len(lines[q].cells) # fpr
  THEN [res |-> "err", cells |-> lines[q].cells, at |-> q, fpr |-> fpr]
  ELSE [res |-> "rec", cells |-> lines[q].cells, at |-> q,
        fpr |-> Len(lines[q].cells)]

\* h[strings.TrimSpace(header)] = i, then l[h[name]]: the last column so
\* named, and the first column when no column is (Go's zero value).
ColIndex(hdr, name) ==
  LET hits == {i \in 1..Len(hdr) : TrimSpace(hdr[i]) = name} IN
  IF hits = {} THEN 1 ELSE CHOOSE i \in hits : \A j \in hits : j <= i

Field(hdr, l, name) == TrimSpace(l[ColIndex(hdr, name)])

\* The body of the for loop of loadFromCSV, from lineNum++ to the append.
RECURSIVE LoadRows(_, _, _, _, _, _)
LoadRows(lines, pos, fpr, hdr, lineNum, hours) ==
  LET ln == lineNum + 1
      r == CsvRead(lines, pos, fpr)
  IN
  IF r.res = "eof" THEN [hours |-> hours, err |-> Nil]
  ELSE IF r.res = "err" THEN [hours |-> hours, err |-> ErrCSV]
  ELSE
    LET note == Field(hdr, r.cells, ColNote)
        buildingHours == Field(hdr, r.cells, ColBuilding)
        chatHours == Field(hdr, r.cells, ColChat)
        day == Field(hdr, r.cells, ColDay)
        parsedDay == ParseDay(day)
    IN
    IF day = <<>>
    THEN [hours |-> hours, err |-> ErrMissingData("day", ln)]
    ELSE IF ~parsedDay.ok
    THEN [hours |-> hours, err |-> ErrParseDay(ln)]
    ELSE IF buildingHours = <<>>
    THEN [hours |-> hours, err |-> ErrMissingData("building hours", ln)]
    ELSE IF chatHours = <<>>
    THEN [hours |-> hours, err |-> ErrMissingData("chat hours", ln)]
    ELSE LoadRows(lines, r.at + 1, r.fpr, hdr, ln,
                  Append(hours, [Day |-> parsedDay.date, Note |-> note,
                                 BuildingHours |-> buildingHours,
                                 ChatHours |-> chatHours]))

\* loadFromCSV(arg), given the file found at arg: the records returned
\* (the named result hours, whatever it holds at the return) and the error.
loadFromCSV(file) ==
  IF ~file.openable THEN [hours |-> <<>>, err |-> ErrOpen]
  ELSE
    LET l == CsvRead(file.lines, 1, 0) IN
    IF l.res = "eof" THEN [hours |-> <<>>, err |-> ErrNoHeader]
    ELSE IF l.res = "err" THEN [hours |-> <<>>, err |-> ErrCSV]
    ELSE LoadRows(file.lines, l.at + 1, l.fpr, l.cells, 1, <<>>)

(***************************************************************************)
(* The input files the model draws from.                                   *)
(***************************************************************************)
D_Mar1 == <<"2", "0", "2", "4", "-", "0", "3", "-", "0", "1">>
D_Mar31Padded ==
  <<" ", "2", "0", "2", "4", "-", "0", "3", "-", "3", "1", " ">>
D_Apr1 == <<"2", "0", "2", "4", "-", "0", "4", "-", "0", "1">>
D_Mar5Next == <<"2", "0", "2", "5", "-", "0", "3", "-", "0", "5">>
D_Feb30 == <<"2", "0", "2", "4", "-", "0", "2", "-", "3", "0">>
D_Short == <<"2", "0", "2", "4", "-", "3", "-", "5">>
T_Hours == <<"9", "-", "5">>
T_HoursPadded == <<" ", "9", "-", "5", "\t">>
T_Blank == <<" ">>
T_Note == <<"h">>

Row(day, bh, ch, note) == [day |-> day, bh |-> bh, ch |-> ch, note |-> note]

ValidRows ==
  { Row(D_Mar1, T_Hours, T_Hours, <<>>),
    Row(D_Mar31Padded, T_HoursPadded, T_Hours, T_Note),
    Row(D_Apr1, T_Hours, T_HoursPadded, <<>>),
    Row(D_Mar5Next, T_Hours, T_Hours, <<>>) }

BadRows ==
  { Row(<<>>, T_Hours, T_Hours, <<>>),
    Row(T_Blank, <<>>, T_Hours, <<>>),
    Row(D_Feb30, T_Hours, T_Hours, <<>>),
    Row(D_Short, <<>>, T_Hours, <<>>),
    Row(D_Mar1, <<>>, T_Hours, <<>>),
    Row(D_Mar1, T_Blank, <<>>, <<>>),
    Row(D_Apr1, T_Hours, <<>>, T_Note),
    Row(D_Apr1, T_Hours, T_Blank, <<>>) }

RowInputs == ValidRows \cup BadRows

HeaderInputs ==
  { <<ColDay, ColBuilding, ColChat, ColNote>>,
    <<ColNote, <<" ">> \o ColChat, ColDay \o <<" ">>, ColBuilding>> }

CellOf(row, name) ==
  IF name = ColDay THEN row.day
  ELSE IF name = ColBuilding THEN row.bh
  ELSE IF name = ColChat THEN row.ch
  ELSE row.note

RecLine(cells) == [kind |-> "rec", cells |-> cells]
BlankLine == [kind |-> "blank", cells |-> <<>>]
BadLine == [kind |-> "bad", cells |-> <<>>]

RowLine(hdr, row) ==
  RecLine([i \in 1..Len(hdr) |-> CellOf(row, TrimSpace(hdr[i]))])

LineInputs(hdr) ==
  {RowLine(hdr, row) : row \in RowInputs}
    \cup {BlankLine, BadLine, RecLine(<<T_Hours>>)}

SeqsUpTo(S, n) == UNION {[1..k -> S] : k \in 0..n}

FilesWith(hdr) ==
  { [openable |-> TRUE, lines |-> <<RecLine(hdr)>> \o data] :
      data \in SeqsUpTo(LineInputs(hdr), MaxRows) }

FileInputs ==
  { [openable |-> FALSE, lines |-> <<>>],
    [openable |-> TRUE, lines |-> <<>>],
    [openable |-> TRUE, lines |-> <<BlankLine>>],
    [openable |-> TRUE, lines |-> <<BadLine>>] }
  \cup UNION {FilesWith(hdr) : hdr \in HeaderInputs}

(***************************************************************************)
(* Month grouping: the partition loop of process().                        *)
(***************************************************************************)
\* months[monthAndYear] = append(months[monthAndYear], h), for h from i on.
RECURSIVE PartitionFrom(_, _, _)
PartitionFrom(hs, i, ms) ==
  IF i > Len(hs) THEN ms
  ELSE
    LET monthAndYear == FormatMonthYear(hs[i].Day)
        cur == IF monthAndYear \in DOMAIN ms THEN ms[monthAndYear] ELSE <<>>
    IN PartitionFrom(hs, i + 1,
         [k \in DOMAIN ms \cup {monthAndYear} |->
            IF k = monthAndYear THEN Append(cur, hs[i]) ELSE ms[k]])

PartitionByMonth(hs) == PartitionFrom(hs, 1, <<>>)

(***************************************************************************)
(* The JSON:API records and their constructors.                            *)
(***************************************************************************)
HoursPath == "/jsonapi/node/hours"
HoursByDayPath == "/jsonapi/paragraph/hours_by_day"
Target == "library.carleton.ca"
StatusOK == 200
StatusCreated == 201

NoID == <<>>

NewHoursNode(title) ==
  [type |-> "node--hours", id |-> NoID, title |-> TrimSpace(title),
   rel |-> <<>>]

NewHoursByDayParagraph(parentID, buildingHours, chatHours, day, note) ==
  [type |-> "paragraph--hours_by_day", id |-> NoID, rev |-> 0,
   parent_id |-> parentID, parent_type |-> "node",
   parent_field_name |-> "field_day",
   building_hours |-> TrimSpace(buildingHours),
   chat_hours |-> TrimSpace(chatHours),
   day |-> TrimSpace(day), note |-> TrimSpace(note)]

NewParagraphRelationship(pType, pID, targetRevisionID) ==
  [type |-> pType, id |-> pID, rev |-> targetRevisionID]

NodePostURL == <<"https://", Target, HoursPath>>
NodePatchURL(n) == <<"https://", Target, HoursPath, "/", n.id>>
ParagraphPostURL == <<"https://", Target, HoursByDayPath>>

(***************************************************************************)
(* doAPICall.  A response is what the HTTP client hands back: a transport  *)
(* failure, or a status with a body that is unreadable, text that is not   *)
(* JSON of the record's shape, or JSON.                                    *)
(***************************************************************************)
ErrTransport(cause) == [kind |-> "transport", cause |-> cause]
ErrRead == [kind |-> "read"]
ErrJSON == [kind |-> "json"]
ErrAPIError(method, url, status, body) ==
  [kind |-> "api", wraps |-> "an API error occurred", method |-> method,
   url |-> url, status |-> status, body |-> body]

\* A variant of the status test that takes every 2xx status as success.
IsSuccessStatus_Any2xx(status) == status \in 200..299

IsSuccessStatus(status) == status = StatusOK \/ status = StatusCreated

\* A variant of the refresh that zeroes the list a body does not carry.
UnmarshalNode_Reset(body, n) ==
  [n EXCEPT !.id = IF body.hasID THEN body.id ELSE @,
            !.rel = IF body.hasRel THEN body.rel ELSE <<>>]

\* json.Unmarshal(rb, n): a key the body carries overwrites the field (a
\* list is replaced whole), a key it lacks leaves the field as it was.
UnmarshalNode(body, n) ==
  [n EXCEPT !.id = IF body.hasID THEN body.id ELSE @,
            !.rel = IF body.hasRel THEN body.rel ELSE @]

UnmarshalParagraph(body, p) ==
  [p EXCEPT !.id = IF body.hasID THEN body.id ELSE @,
            !.rev = IF body.hasRev THEN body.rev ELSE @]

HoursNode_doAPICall(n, url, method, resp) ==
  IF resp.net # "answered"
  THEN [rec |-> n, err |-> ErrTransport(resp.cause)]
  ELSE IF IsSuccessStatus(resp.status)
  THEN IF resp.body.kind = "unreadable" THEN [rec |-> n, err |-> ErrRead]
       ELSE IF resp.body.kind # "json" THEN [rec |-> n, err |-> ErrJSON]
       ELSE [rec |-> UnmarshalNode(resp.body, n), err |-> Nil]
  ELSE IF resp.body.kind = "unreadable" THEN [rec |-> n, err |-> ErrRead]
  ELSE [rec |-> n,
        err |-> ErrAPIError(method, url, resp.status, resp.body)]

HoursByDayParagraph_doAPICall(p, url, method, resp) ==
  IF resp.net # "answered"
  THEN [rec |-> p, err |-> ErrTransport(resp.cause)]
  ELSE IF IsSuccessStatus(resp.status)
  THEN IF resp.body.kind = "unreadable" THEN [rec |-> p, err |-> ErrRead]
       ELSE IF resp.body.kind # "json" THEN [rec |-> p, err |-> ErrJSON]
       ELSE [rec |-> UnmarshalParagraph(resp.body, p), err |-> Nil]
  ELSE IF resp.body.kind = "unreadable" THEN [rec |-> p, err |-> ErrRead]
  ELSE [rec |-> p,
        err |-> ErrAPIError(method, url, resp.status, resp.body)]

(***************************************************************************)
(* The server and the network, as the client can meet them.  The server    *)
(* stores what a request it handled asked for; what it answers is its own. *)
(***************************************************************************)
NodeID(k) == <<"n", DigitChar(k)>>
ParaID(k) == <<"p", DigitChar(k)>>

TextBody == [kind |-> "text", text |-> "server error"]
UnreadableBody == [kind |-> "unreadable"]
NoBody == [kind |-> "none"]

\* The bodies a server may send with 200/201 for a node it stored with
\* identifier id and relationship list rel.
NodeBodies(id, rel) ==
  { [kind |-> "json", hasID |-> i[1], id |-> i[2], hasRel |-> r[1],
     rel |-> r[2]] :
      i \in {<<TRUE, id>>, <<FALSE, NoID>>},
      r \in {<<TRUE, rel>>, <<TRUE, <<>> >>, <<FALSE, <<>> >>} }

\* ... and for a paragraph it stored with identifier id and revision rev.
ParagraphBodies(id, rev) ==
  { [kind |-> "json", hasID |-> i[1], id |-> i[2], hasRev |-> r[1],
     rev |-> r[2]] :
      i \in {<<TRUE, id>>, <<FALSE, NoID>>},
      r \in {<<TRUE, rev>>, <<FALSE, 0>>} }

Failed(cause, reached, applied) ==
  [net |-> "failed", cause |-> cause, reached |-> reached,
   applied |-> applied, status |-> 0, body |-> NoBody]

Answered(status, body, applied) ==
  [net |-> "answered", cause |-> "", reached |-> TRUE, applied |-> applied,
   status |-> status, body |-> body]

\* Every way one HTTP exchange can end.  With the context already cancelled
\* the client fails before anything is sent.  canApply: the request names
\* something the server can act on; okBodies: its 200/201 JSON bodies;
\* badBodies: the other bodies it may send; failStatuses: the statuses it
\* may refuse with.
Responses(cancelled, canApply, okBodies, badBodies, failStatuses) ==
  IF cancelled THEN {Failed("canceled", FALSE, FALSE)}
  ELSE
    {Failed("net", FALSE, FALSE), Failed("canceled", TRUE, FALSE)}
    \cup {Failed("timeout", TRUE, a) :
            a \in (IF canApply THEN BOOLEAN ELSE {FALSE})}
    \cup {Answered(st, b, FALSE) : st \in failStatuses, b \in badBodies}
    \cup (IF canApply
          THEN {Answered(st, b, TRUE) :
                  st \in {StatusOK, StatusCreated},
                  b \in okBodies \cup badBodies}
          ELSE {})

\* What the run of process() meets: one refusal status, bodies readable.
RunResponses(cancelled, canApply, okBodies) ==
  Responses(cancelled, canApply, okBodies, {TextBody}, {500})

\* A 200/201 body that carries the identifier (and revision) the server
\* assigned, and either no relationship list or the one the server stored.
ConformantNodeBody(body, id, rel) ==
  body.kind = "json" /\ body.hasID /\ body.id = id
    /\ (body.hasRel => body.rel = rel)

ConformantParagraphBody(body, id, rev) ==
  body.kind = "json" /\ body.hasID /\ body.id = id
    /\ body.hasRev /\ body.rev = rev

Anomaly(b) == IF b THEN 1 ELSE 0

(***************************************************************************)
(* State.                                                                  *)
(***************************************************************************)
VARIABLES
  pc,           \* where process() is: load, partition, group, para, patch,
                \* done (returned) or killed (ended by the signal)
  nargs,        \* len(args)
  argIdx,       \* the argument the load loop is at
  hours,        \* the records loaded so far
  months,       \* the map from month label to its records
  todo,         \* the map keys the range loop has not visited yet
  month,        \* the key of the group being processed
  dayIdx,       \* the index of the day the inner loop is at
  n,            \* the HoursNode of the group being processed
  ctx,          \* none (not created yet), live, cancelled
  result,       \* what process() returned
  out,          \* what was printed
  srvNodes,     \* the server's nodes: identifier -> title, relationships
  srvParas,     \* the server's paragraphs, in creation order
  opened,       \* history: the arguments loadFromCSV was called with
  lastLoad,     \* history: the last loadFromCSV call
  skipped,      \* history: a file with an input error was loaded as good
  published,    \* history: the paragraphs of this group, as refreshed
  calls,        \* history: the API calls made, in order
  last,         \* history: the last API call, its response and its result
  anomalies,    \* history: how many 200/201 bodies were not conformant
  cancelAt      \* history: where the run was when the signal arrived

vars ==
  << pc, nargs, argIdx, hours, months, todo, month, dayIdx, n, ctx, result,
     out, srvNodes, srvParas, opened, lastLoad, skipped, published, calls,
     last, anomalies, cancelAt >>

Running == [kind |-> "running"]
NoNode == NewHoursNode(<<>>)
NoLoad == [arg |-> 0, file |-> [openable |-> FALSE, lines |-> <<>>],
           ret |-> [hours |-> <<>>, err |-> Nil]]
NoCall == [op |-> "none"]
NoCancel ==
  [pc |-> "none", read |-> 0, attempts |-> 0, sent |-> 0, pending |-> FALSE]

Init ==
  /\ pc = "load"
  /\ nargs \in 1..MaxFiles
  /\ argIdx = 1
  /\ hours = <<>>
  /\ months = <<>>
  /\ todo = {}
  /\ month = <<>>
  /\ dayIdx = 0
  /\ n = NoNode
  /\ ctx = "none"
  /\ result = Running
  /\ out = <<>>
  /\ srvNodes = <<>>
  /\ srvParas = <<>>
  /\ opened = <<>>
  /\ lastLoad = NoLoad
  /\ skipped = FALSE
  /\ published = <<>>
  /\ calls = <<>>
  /\ last = NoCall
  /\ anomalies = 0
  /\ cancelAt = NoCancel

(***************************************************************************)
(* What counts as an input error of a file, stated on the file itself.     *)
(***************************************************************************)
Records(file) == SelectSeq(file.lines, LAMBDA l : l.kind # "blank")

RowHasError(hdr, l) ==
  \/ l.kind = "bad"
  \/ Len(l.cells) # Len(hdr)
  \/ Field(hdr, l.cells, ColDay) = <<>>
  \/ ~ParseDay(Field(hdr, l.cells, ColDay)).ok
  \/ Field(hdr, l.cells, ColBuilding) = <<>>
  \/ Field(hdr, l.cells, ColChat) = <<>>

HasInputError(file) ==
  \/ ~file.openable
  \/ Records(file) = <<>>
  \/ Records(file)[1].kind = "bad"
  \/ \E i \in 2..Len(Records(file)) :
       RowHasError(Records(file)[1].cells, Records(file)[i])

(***************************************************************************)
(* process(): loading.                                                     *)
(***************************************************************************)
WrapFileError(arg, err) == [kind |-> "file", path |-> arg, cause |-> err]

\* A variant of the load loop that drops a file it could not load and
\* goes on.
AfterLoad_Skip(arg, ret, hs) ==
  IF ret.err # Nil
  THEN [returns |-> FALSE, result |-> Running, hours |-> hs]
  ELSE [returns |-> FALSE, result |-> Running, hours |-> hs \o ret.hours]

\* What the load loop does with loadFromCSV's return for argument arg:
\* the error, wrapped, ends the run; otherwise the records are appended.
AfterLoad(arg, ret, hs) ==
  IF ret.err # Nil
  THEN [returns |-> TRUE, result |-> WrapFileError(arg, ret.err),
        hours |-> hs]
  ELSE [returns |-> FALSE, result |-> Running, hours |-> hs \o ret.hours]

\* What loadFromCSV can return on the files of the model, each with
\* whether the file it came from has an input error.
LoadResults ==
  {[ret |-> loadFromCSV(file), bad |-> HasInputError(file)] :
     file \in FileInputs}

LoadFile ==
  /\ pc = "load"
  /\ argIdx <= nargs
  /\ \E lr \in LoadResults :
       LET after == AfterLoad(argIdx, lr.ret, hours)
       IN /\ Len(after.hours) <= MaxDays
          /\ opened' = Append(opened, argIdx)
          /\ lastLoad' = IF after.returns
                         THEN [NoLoad EXCEPT !.arg = argIdx, !.ret = lr.ret]
                         ELSE [NoLoad EXCEPT !.arg = argIdx]
          /\ skipped' = (skipped \/ (~after.returns /\ lr.bad))
          /\ hours' = after.hours
          /\ result' = after.result
          /\ IF after.returns
             THEN pc' = "done" /\ argIdx' = argIdx
             ELSE /\ argIdx' = argIdx + 1
                  /\ pc' = IF argIdx + 1 > nargs THEN "partition" ELSE "load"
  /\ UNCHANGED << nargs, months, todo, month, dayIdx, n, ctx, out, srvNodes,
                  srvParas, published, calls, last, anomalies, cancelAt >>

\* The partition loop, then signal.NotifyContext.
Partition ==
  /\ pc = "partition"
  /\ months' = PartitionByMonth(hours)
  /\ todo' = DOMAIN months'
  /\ ctx' = "live"
  /\ pc' = "group"
  /\ UNCHANGED << nargs, argIdx, hours, month, dayIdx, n, result, out,
                  srvNodes, srvParas, opened, lastLoad, skipped, published,
                  calls,
                  last, anomalies, cancelAt >>

(***************************************************************************)
(* process(): publishing.                                                  *)
(***************************************************************************)
HoursNode_Post(node, resp) ==
  HoursNode_doAPICall(node, NodePostURL, "POST", resp)

HoursNode_Patch(node, resp) ==
  HoursNode_doAPICall(node, NodePatchURL(node), "PATCH", resp)

HoursByDayParagraph_Post(p, resp) ==
  HoursByDayParagraph_doAPICall(p, ParagraphPostURL, "POST", resp)

\* Variants of the error check: one that never returns, one that returns
\* without the error.
ReturnIfErr_Never(err) == [returns |-> FALSE, result |-> err]

ReturnIfErr_Swallow(err) == [returns |-> err # Nil, result |-> Nil]

\* if err != nil { return err }
ReturnIfErr(err) == [returns |-> err # Nil, result |-> err]

\* if ctx.Err() != nil { return ctx.Err() }
ErrCanceled == [kind |-> "ctx", cause |-> "canceled"]

\* A variant of the check that never sees the cancellation.
CtxErr_Never(c) == Nil

CtxErr(c) == IF c = "cancelled" THEN ErrCanceled ELSE Nil

\* A variant that builds the paragraph before its parent is known.
ParagraphFor_Unparented(node, h) ==
  NewHoursByDayParagraph(NoID, h.BuildingHours, h.ChatHours,
                         FormatISO(h.Day), h.Note)

\* The request of day i of the group: the paragraph built from the node's
\* identifier and the day's record.
ParagraphFor(node, h) ==
  NewHoursByDayParagraph(node.id, h.BuildingHours, h.ChatHours,
                         FormatISO(h.Day), h.Note)

\* A variant of the append that keeps only the newest relationship.
LinkParagraph_Replace(node, p) ==
  [node EXCEPT !.rel = <<NewParagraphRelationship(p.type, p.id, p.rev)>>]

\* r := NewParagraphRelationship(...); n...Data = append(n...Data, r)
LinkParagraph(node, p) ==
  [node EXCEPT !.rel = Append(@, NewParagraphRelationship(p.type, p.id,
                                                          p.rev))]

\* A variant of the day loop that steps over every other day.
NextDay_Skip(i, len) == IF i + 1 < len THEN i + 2 ELSE 0

\* The day after day i of a group of len days, or 0 when the group is done.
NextDay(i, len) == IF i < len THEN i + 1 ELSE 0

Reached(cs) == Cardinality({i \in 1..Len(cs) : cs[i].reached})

\* Whether a file or a day is still to be processed.
Pending ==
  IF pc = "load" THEN argIdx <= nargs
  ELSE IF pc = "partition" THEN hours # <<>>
  ELSE IF pc = "group" THEN todo # {}
  ELSE IF pc = "para" THEN TRUE
  ELSE IF pc = "patch" THEN dayIdx < Len(months[month]) \/ todo # {}
  ELSE FALSE

\* Where the run is when the signal arrives: the files read, the calls
\* made and the requests sent so far.
CancelPoint(at, cs) ==
  [pc |-> at, read |-> Len(opened), attempts |-> Len(cs),
   sent |-> Reached(cs), pending |-> Pending]

\* One entry of the call history: the request, whether it reached the
\* network, the error the call returned, the identifier the server
\* assigned if it acted, whether the body carried an identifier, whether it
\* left the relationship list as sent, and the identifier in memory after.
CallEntry(op, method, url, m, i, req, resp, r, assigned) ==
  [op |-> op, method |-> method, url |-> url, month |-> m, day |-> i,
   req |-> req, reached |-> resp.reached, err |-> r.err,
   assigned |-> IF resp.applied THEN assigned ELSE NoID,
   carried |-> (resp.body.kind = "json" /\ resp.body.hasID),
   kept |-> (resp.body.kind = "json" /\ op = "node"
               => (resp.body.hasRel => resp.body.rel = req.rel)),
   got |-> r.rec.id]

LastCall(op, method, url, req, resp, r) ==
  [op |-> op, method |-> method, url |-> url, req |-> req, resp |-> resp,
   err |-> r.err, rec |-> r.rec]

\* The signal may arrive while a request is in flight: the client then
\* fails with the context's error.
InFlightCancel(resp) == resp.net = "failed" /\ resp.cause = "canceled"

Bookkeeping(entry, resp) ==
  /\ calls' = Append(calls, entry)
  /\ last' = last
  /\ ctx' = IF InFlightCancel(resp) THEN "cancelled" ELSE ctx
  /\ cancelAt' = IF InFlightCancel(resp) /\ ctx = "live"
                 THEN CancelPoint("inflight", Append(calls, entry))
                 ELSE cancelAt

\* fmt.Printf("%v...", month); n := NewHoursNode(month); n.Post(...)
StartGroup ==
  /\ pc = "group"
  /\ \E m \in todo :
       LET n0 == NewHoursNode(m)
           id == NodeID(Cardinality(DOMAIN srvNodes) + 1)
       IN \E resp \in RunResponses(ctx = "cancelled", TRUE,
                                   NodeBodies(id, n0.rel)) :
            LET r == HoursNode_Post(n0, resp)
                ret == ReturnIfErr(r.err)
            IN /\ out' = Append(out, <<m, "...">>)
               /\ Bookkeeping(
                    CallEntry("node", "POST", NodePostURL, m, 0, n0, resp,
                              r, id), resp)
               /\ srvNodes' =
                    IF resp.applied
                    THEN srvNodes @@ (id :> [title |-> n0.title,
                                             rel |-> n0.rel])
                    ELSE srvNodes
               /\ anomalies' = anomalies +
                    Anomaly(r.err = Nil
                            /\ ~ConformantNodeBody(resp.body, id, n0.rel))
               /\ anomalies' <= MaxAnomalies
               /\ todo' = todo \ {m}
               /\ month' = m
               /\ n' = r.rec
               /\ published' = <<>>
               /\ IF ret.returns
                  THEN pc' = "done" /\ result' = ret.result /\ dayIdx' = 0
                  ELSE pc' = "para" /\ result' = result /\ dayIdx' = 1
  /\ UNCHANGED << nargs, argIdx, hours, months, srvParas, opened, lastLoad,
                  skipped >>

\* The head of the day loop: the context check, then the paragraph's
\* Post and the append of its relationship to the node.
CreateParagraph ==
  /\ pc = "para"
  /\ LET h == months[month][dayIdx]
         ce == ReturnIfErr(CtxErr(ctx))
     IN
     IF ce.returns
     THEN /\ pc' = "done"
          /\ result' = ce.result
          /\ UNCHANGED << n, published, calls, last, ctx, cancelAt,
                          srvParas, anomalies >>
     ELSE
       LET p0 == ParagraphFor(n, h)
           id == ParaID(Len(srvParas) + 1)
           rev == Len(srvParas) + 1
       IN \E resp \in RunResponses(ctx = "cancelled", TRUE,
                                   ParagraphBodies(id, rev)) :
            LET r == HoursByDayParagraph_Post(p0, resp)
                ret == ReturnIfErr(r.err)
            IN /\ Bookkeeping(
                    CallEntry("para", "POST", ParagraphPostURL, month,
                              dayIdx, p0, resp, r, id), resp)
               /\ srvParas' =
                    IF resp.applied
                    THEN Append(srvParas,
                                [id |-> id, rev |-> rev,
                                 parent_id |-> p0.parent_id, day |-> p0.day])
                    ELSE srvParas
               /\ anomalies' = anomalies +
                    Anomaly(r.err = Nil
                            /\ ~ConformantParagraphBody(resp.body, id, rev))
               /\ anomalies' <= MaxAnomalies
               /\ IF ret.returns
                  THEN /\ pc' = "done" /\ result' = ret.result
                       /\ UNCHANGED << n, published >>
                  ELSE /\ pc' = "patch" /\ result' = result
                       /\ n' = LinkParagraph(n, r.rec)
                       /\ published' = Append(published, r.rec)
  /\ UNCHANGED << nargs, argIdx, hours, months, todo, month, dayIdx, out,
                  srvNodes, opened, lastLoad, skipped >>

\* n.Patch(...), then the next day, or " Success" and the next group.
PatchNode ==
  /\ pc = "patch"
  /\ \E resp \in RunResponses(ctx = "cancelled", n.id \in DOMAIN srvNodes,
                              NodeBodies(n.id, n.rel)) :
       LET url == NodePatchURL(n)
           r == HoursNode_Patch(n, resp)
           ret == ReturnIfErr(r.err)
           next == NextDay(dayIdx, Len(months[month]))
       IN /\ Bookkeeping(
               CallEntry("node", "PATCH", url, month, dayIdx, n, resp, r,
                         n.id), resp)
          /\ srvNodes' =
               IF resp.applied
               THEN [srvNodes EXCEPT ![n.id] = [title |-> n.title,
                                                rel |-> n.rel]]
               ELSE srvNodes
          /\ anomalies' = anomalies +
               Anomaly(r.err = Nil
                       /\ ~ConformantNodeBody(resp.body, n.id, n.rel))
          /\ anomalies' <= MaxAnomalies
          /\ n' = r.rec
          /\ IF ret.returns
             THEN /\ pc' = "done" /\ result' = ret.result
                  /\ UNCHANGED << dayIdx, out >>
             ELSE /\ result' = result
                  /\ IF next # 0
                     THEN pc' = "para" /\ dayIdx' = next /\ out' = out
                     ELSE /\ pc' = "group" /\ dayIdx' = dayIdx
                          /\ out' = Append(out, <<month, " Success">>)
  /\ UNCHANGED << nargs, argIdx, hours, months, todo, month, srvParas,
                  opened, lastLoad, skipped, published >>

\* return nil, once the range loop has visited every month.
Return ==
  /\ pc = "group"
  /\ todo = {}
  /\ pc' = "done"
  /\ result' = Nil
  /\ UNCHANGED << nargs, argIdx, hours, months, todo, month, dayIdx, n, ctx,
                  out, srvNodes, srvParas, opened, lastLoad, skipped,
                  published, calls, last, anomalies, cancelAt >>

\* SIGINT before signal.NotifyContext has run: Go's default disposition
\* ends the program; process() never returns.
InterruptKills ==
  /\ pc \in {"load", "partition"}
  /\ pc' = "killed"
  /\ cancelAt' = CancelPoint(pc, calls)
  /\ UNCHANGED << nargs, argIdx, hours, months, todo, month, dayIdx, n, ctx,
                  result, out, srvNodes, srvParas, opened, lastLoad, skipped,
                  published, calls, last, anomalies >>

\* SIGINT after signal.NotifyContext: the context is cancelled.
InterruptCancels ==
  /\ pc \in {"group", "para", "patch"}
  /\ ctx = "live"
  /\ ctx' = "cancelled"
  /\ cancelAt' = CancelPoint(pc, calls)
  /\ UNCHANGED << pc, nargs, argIdx, hours, months, todo, month, dayIdx, n,
                  result, out, srvNodes, srvParas, opened, lastLoad, skipped,
                  published, calls, last, anomalies >>

Next ==
  \/ LoadFile
  \/ Partition
  \/ StartGroup
  \/ CreateParagraph
  \/ PatchNode
  \/ Return
  \/ InterruptKills
  \/ InterruptCancels

Spec == Init /\ [][Next]_vars

(***************************************************************************)
(* loadFromCSV on its own: one call on each file of the model.             *)
(***************************************************************************)
InitCSV ==
  /\ pc = "csv"
  /\ nargs = 1
  /\ argIdx = 1
  /\ hours = <<>>
  /\ months = <<>>
  /\ todo = {}
  /\ month = <<>>
  /\ dayIdx = 0
  /\ n = NoNode
  /\ ctx = "none"
  /\ result = Running
  /\ out = <<>>
  /\ srvNodes = <<>>
  /\ srvParas = <<>>
  /\ opened = <<>>
  /\ lastLoad \in {[NoLoad EXCEPT !.arg = 1, !.file = f] : f \in FileInputs}
  /\ skipped = FALSE
  /\ published = <<>>
  /\ calls = <<>>
  /\ last = NoCall
  /\ anomalies = 0
  /\ cancelAt = NoCancel

LoadCSV ==
  /\ pc = "csv"
  /\ pc' = "csvdone"
  /\ lastLoad' = [lastLoad EXCEPT !.ret = loadFromCSV(lastLoad.file)]
  /\ opened' = Append(opened, lastLoad.arg)
  /\ UNCHANGED << nargs, argIdx, hours, months, todo, month, dayIdx, n, ctx,
                  result, out, srvNodes, srvParas, skipped, published, calls,
                  last, anomalies, cancelAt >>

NextCSV == LoadCSV

SpecCSV == InitCSV /\ [][NextCSV]_vars

(***************************************************************************)
(* doAPICall on its own: one call, of each of the three kinds process()    *)
(* makes, against every response.                                          *)
(***************************************************************************)
H_Mar1 == [Day |-> [year |-> 2024, month |-> 3, day |-> 1], Note |-> T_Note,
           BuildingHours |-> T_Hours, ChatHours |-> T_Hours]

APINode(k) ==
  [NewHoursNode(FormatMonthYear(H_Mar1.Day)) EXCEPT
     !.id = NodeID(1),
     !.rel = [i \in 1..k |->
                NewParagraphRelationship("paragraph--hours_by_day",
                                         ParaID(i), i)]]

\* The requests: a node's Post, the Patch of a node with k links made so
\* far, a paragraph's Post.
APIRequests ==
  { [op |-> "node", method |-> "POST", url |-> NodePostURL,
     req |-> NewHoursNode(FormatMonthYear(H_Mar1.Day))] }
  \cup { [op |-> "node", method |-> "PATCH", url |-> NodePatchURL(APINode(k)),
          req |-> APINode(k)] : k \in 1..MaxDays }
  \cup { [op |-> "para", method |-> "POST", url |-> ParagraphPostURL,
          req |-> ParagraphFor(APINode(0), H_Mar1)] }

NoResponse == Failed("", FALSE, FALSE)

InitAPI ==
  /\ pc = "api"
  /\ nargs = 1
  /\ argIdx = 1
  /\ hours = <<>>
  /\ months = <<>>
  /\ todo = {}
  /\ month = <<>>
  /\ dayIdx = 0
  /\ n = NoNode
  /\ ctx \in {"live", "cancelled"}
  /\ result = Running
  /\ out = <<>>
  /\ srvNodes = <<>>
  /\ srvParas = <<>>
  /\ opened = <<>>
  /\ lastLoad = NoLoad
  /\ skipped = FALSE
  /\ published = <<>>
  /\ calls = <<>>
  /\ last \in {[op |-> q.op, method |-> q.method, url |-> q.url,
                req |-> q.req, resp |-> NoResponse, err |-> Running,
                rec |-> q.req] : q \in APIRequests}
  /\ anomalies = 0
  /\ cancelAt = NoCancel

APIBodies(q) ==
  IF q.op = "node"
  THEN NodeBodies(NodeID(1), q.req.rel)
  ELSE ParagraphBodies(ParaID(1), 1)

APICall ==
  /\ pc = "api"
  /\ pc' = "apidone"
  /\ \E resp \in Responses(ctx = "cancelled", TRUE, APIBodies(last),
                           {TextBody, UnreadableBody}, {204, 404, 500}) :
       LET r == IF last.op = "node"
                THEN HoursNode_doAPICall(last.req, last.url, last.method,
                                         resp)
                ELSE HoursByDayParagraph_doAPICall(last.req, last.url,
                                                   last.method, resp)
       IN last' = LastCall(last.op, last.method, last.url, last.req, resp, r)
  /\ UNCHANGED << nargs, argIdx, hours, months, todo, month, dayIdx, n, ctx,
                  result, out, srvNodes, srvParas, opened, lastLoad, skipped,
                  published, calls, anomalies, cancelAt >>

NextAPI == APICall

SpecAPI == InitAPI /\ [][NextAPI]_vars

(***************************************************************************)
(* Properties.                                                             *)
(***************************************************************************)
IsNodePost(c) == c.op = "node" /\ c.method = "POST"
IsNodePatch(c) == c.op = "node" /\ c.method = "PATCH"
IsParaPost(c) == c.op = "para"

\* C1: within a month group the calls go create-node, then for each day in
\* recorded order create-paragraph followed by update-node.  A paragraph's
\* POST follows directly a successful call on its group's node: the node's
\* POST for day 1, the PATCH of day i for day i+1; a PATCH follows directly
\* the successful POST of its day's paragraph; a node's POST is the run's
\* first call or follows the successful PATCH of another group's last day;
\* and the paragraph of day i carries the i-th record of the group.
C1_CallOrder ==
  \A j \in 1..Len(calls) :
    LET c == calls[j] IN
    /\ IsParaPost(c) =>
         /\ j > 1
         /\ calls[j - 1].op = "node"
         /\ calls[j - 1].err = Nil
         /\ calls[j - 1].month = c.month
         /\ \/ IsNodePost(calls[j - 1]) /\ c.day = 1
            \/ IsNodePatch(calls[j - 1]) /\ c.day = calls[j - 1].day + 1
         /\ c.day <= Len(months[c.month])
         /\ c.req.day = FormatISO(months[c.month][c.day].Day)
         /\ c.req.building_hours = months[c.month][c.day].BuildingHours
         /\ c.req.note = months[c.month][c.day].Note
    /\ IsNodePatch(c) =>
         /\ j > 1
         /\ IsParaPost(calls[j - 1])
         /\ calls[j - 1].err = Nil
         /\ calls[j - 1].month = c.month
         /\ calls[j - 1].day = c.day
    /\ IsNodePost(c) =>
         /\ \A i \in 1..(j - 1) : calls[i].month # c.month
         /\ j > 1 =>
              /\ IsNodePatch(calls[j - 1])
              /\ calls[j - 1].err = Nil
              /\ calls[j - 1].day = Len(months[calls[j - 1].month])

\* A second day's paragraph was sent, and after it another group's node.
C1_Witness ==
  \E j \in 1..Len(calls) : \E k \in 1..Len(calls) :
    /\ j < k
    /\ IsParaPost(calls[j]) /\ calls[j].day = 2 /\ calls[j].reached
    /\ IsNodePost(calls[k]) /\ calls[k].reached

\* C5: the first error an API call returns ends the run: the failed call is
\* the last call made, process() has returned, and what it returned is
\* exactly that error.
C5_FirstErrorAborts ==
  \A j \in 1..Len(calls) :
    calls[j].err # Nil =>
      /\ j = Len(calls)
      /\ pc = "done"
      /\ result = calls[j].err

\* An update-node call failed with an API error while a day of its group
\* and another group were still to come.
C5_Witness ==
  /\ calls # <<>>
  /\ LET c == calls[Len(calls)] IN
       /\ IsNodePatch(c)
       /\ c.err.kind = "api"
       /\ c.day < Len(months[c.month])
       /\ todo # {}

\* The relationships of the paragraphs published so far in the group, in
\* the order the days were processed.
RelationshipsOf(ps) ==
  [i \in 1..Len(ps) |->
     NewParagraphRelationship(ps[i].type, ps[i].id, ps[i].rev)]

C2_Exact == n.rel = RelationshipsOf(published)

C2_NoShrink == month' = month => Len(n'.rel) >= Len(n.rel)

\* Every 200/201 body the node calls met either carried no relationship
\* list or carried the list the request sent.
C2_ListsKept == \A j \in 1..Len(calls) : calls[j].kept

\* C2 as stated: whatever the server puts in its 200/201 bodies, after k
\* days of the group the node's list holds the k relationships of the k
\* paragraphs in order, and the list of a group's node never gets shorter.
C2_AnyServer == [][C2_Exact' /\ C2_NoShrink]_vars

\* C2, for servers whose 200/201 bodies omit the relationship list or carry
\* it as sent: after k days of the group have been published the node's
\* list is exactly the k relationships (type, identifier, revision) of the
\* k paragraphs in processing order, and within a group the list never gets
\* shorter, the refresh from each response body included.
C2_RelationshipsAccumulate ==
  [][C2_ListsKept' => C2_Exact' /\ C2_NoShrink]_vars

\* Three days of one group were created and linked, the last PATCH included.
C2_Witness ==
  /\ pc = "group"
  /\ Len(published) = 3
  /\ Len(n.rel) = 3
  /\ C2_ListsKept
  /\ calls # <<>> /\ IsNodePatch(calls[Len(calls)])
  /\ calls[Len(calls)].err = Nil

\* process() has returned an error.
Aborted == pc = "done" /\ result # Nil

\* The i-th paragraph the server created is referenced by the relationship
\* list the server stores for the paragraph's parent node.
LinkedOnServer(i) ==
  LET p == srvParas[i] IN
    /\ p.parent_id \in DOMAIN srvNodes
    /\ \E k \in 1..Len(srvNodes[p.parent_id].rel) :
         srvNodes[p.parent_id].rel[k].id = p.id

Signalled == cancelAt.pc # "none"

C6_InputErrorsFatal ==
  /\ ~skipped
  /\ opened = [i \in 1..Len(opened) |-> i]
  /\ lastLoad.ret.err # Nil =>
       /\ pc = "done"
       /\ result = WrapFileError(lastLoad.arg, lastLoad.ret.err)
       /\ Len(opened) = lastLoad.arg
       /\ calls = <<>>
       /\ srvNodes = <<>> /\ srvParas = <<>>
  /\ result.kind = "file" => lastLoad.ret.err # Nil

\* The first of two files has a row whose date does not parse, after a
\* valid row: the run ended there, the second file unread.
C6_Witness ==
  /\ pc = "done"
  /\ nargs = 2
  /\ opened = <<1>>
  /\ lastLoad.ret.err.kind = "parseday"
  /\ lastLoad.ret.hours # <<>>
  /\ result.kind = "file" /\ result.path = 1

\* The required fields of the record on line l that are empty after
\* trimming, by the names the error messages use.
EmptyFields(hdr, l) ==
  {f \in {"day", "building hours", "chat hours"} :
     Field(hdr, l.cells,
           IF f = "day" THEN ColDay
           ELSE IF f = "building hours" THEN ColBuilding ELSE ColChat) = <<>>}

\* Line i of the file is a data row with an empty required field and
\* nothing else wrong with it, and no line before it stops the load.
FirstBadRowIsEmpty(file, i) ==
  /\ file.openable
  /\ file.lines[1].kind = "rec"
  /\ \A j \in 2..(i - 1) :
       \/ file.lines[j].kind = "blank"
       \/ ~RowHasError(file.lines[1].cells, file.lines[j])
  /\ file.lines[i].kind = "rec"
  /\ Len(file.lines[i].cells) = Len(file.lines[1].cells)
  /\ EmptyFields(file.lines[1].cells, file.lines[i]) # {}
  /\ \/ "day" \in EmptyFields(file.lines[1].cells, file.lines[i])
     \/ ParseDay(Field(file.lines[1].cells, file.lines[i].cells, ColDay)).ok

\* C7, the line and the field the error names: for a data row whose day,
\* building hours or chat hours is empty after trimming, loadFromCSV fails
\* with the missing-data error that names the row's 1-based line in the
\* file (the header being line 1, the first data row line 2) and an empty
\* field of the row, also when valid rows come before the row.
C7_MissingDataNamesLine ==
  pc = "csvdone" =>
    \A i \in 2..Len(lastLoad.file.lines) :
      FirstBadRowIsEmpty(lastLoad.file, i) =>
        /\ lastLoad.ret.err.kind = "missing"
        /\ lastLoad.ret.err.line = i
        /\ lastLoad.ret.err.field
             \in EmptyFields(lastLoad.file.lines[1].cells,
                             lastLoad.file.lines[i])

SameMonth(a, b) == a.Day.year = b.Day.year /\ a.Day.month = b.Day.month

\* The records of hs of the month and year of record h, in the order of hs.
MonthOf(hs, h) == SelectSeq(hs, LAMBDA x : SameMonth(x, h))

\* C8: month grouping is an order-preserving partition of the loaded
\* records (file-argument order, then row order).  Once the groups are
\* built, every record's label "<month name>, <4-digit year>" is a key,
\* the group under it is exactly the records of that month and year in
\* their order in the sequence (none lost, none duplicated, none from
\* another month), and every key is the label of some record.
C8_PartitionByMonth ==
  ctx # "none" =>
    /\ \A i \in 1..Len(hours) :
         LET k == FormatMonthYear(hours[i].Day) IN
           /\ k \in DOMAIN months
           /\ months[k] = MonthOf(hours, hours[i])
           /\ k = MonthNames[hours[i].Day.month] \o <<",", " ">>
                    \o YearDigits(hours[i].Day.year)
           /\ Len(k) = Len(MonthNames[hours[i].Day.month]) + 6
    /\ \A k \in DOMAIN months :
         \E i \in 1..Len(hours) : k = FormatMonthYear(hours[i].Day)

\* Two files: a March 2024 day and a March 2025 day in the first, another
\* March 2024 day in the second; the March 2024 group holds the first
\* file's day and then the second file's.
C8_Witness ==
  /\ ctx # "none"
  /\ opened = <<1, 2>>
  /\ Len(hours) = 3
  /\ SameMonth(hours[1], hours[3]) /\ hours[1] # hours[3]
  /\ ~SameMonth(hours[1], hours[2])
  /\ hours[1].Day.month = hours[2].Day.month
  /\ months[<<"M", "a", "r", "c", "h", ",", " ", "2", "0", "2", "4">>]
       = <<hours[1], hours[3]>>

\* The create-node call of the group of call c.
NodePostOf(c) ==
  calls[CHOOSE i \in 1..Len(calls) :
          IsNodePost(calls[i]) /\ calls[i].month = c.month]

\* C9 as stated: every paragraph create request carries a parent_id that
\* is non-empty and is the identifier the server assigned to the group's
\* node; the node has no identifier in its create request and a non-empty
\* one after every create response treated as success.
C9_ParentIsAssignedID ==
  \A j \in 1..Len(calls) :
    LET c == calls[j] IN
      /\ IsParaPost(c) =>
           /\ c.req.parent_id # NoID
           /\ c.req.parent_id = NodePostOf(c).assigned
      /\ IsNodePost(c) =>
           /\ c.req.id = NoID
           /\ c.err = Nil => c.got # NoID

\* C9, as the code has it: the node's create request carries no
\* identifier; every paragraph create request carries as parent_id the
\* identifier the node holds in memory after the call before it; and when
\* the 200/201 body of the node's create call carried an identifier, that
\* is the non-empty identifier the server assigned, held after the call
\* and carried by every paragraph create request of the group.
C9_ParentIsNodeID ==
  \A j \in 1..Len(calls) :
    LET c == calls[j] IN
      /\ IsParaPost(c) =>
           /\ j > 1 /\ calls[j - 1].op = "node"
           /\ c.req.parent_id = calls[j - 1].got
           /\ NodePostOf(c).carried =>
                /\ c.req.parent_id # NoID
                /\ c.req.parent_id = NodePostOf(c).assigned
      /\ IsNodePost(c) =>
           /\ c.req.id = NoID
           /\ c.err = Nil /\ c.carried => c.got # NoID /\ c.got = c.assigned

\* The paragraph of a group's second day was sent with the identifier the
\* server assigned to the group's node.
C9_Witness ==
  \E j \in 1..Len(calls) :
    /\ IsParaPost(calls[j]) /\ calls[j].day = 2 /\ calls[j].reached
    /\ calls[j].req.parent_id = NodeID(1)
    /\ NodePostOf(calls[j]).assigned = NodeID(1)

\* The record rec is the request req refreshed from the JSON body: what the
\* body carries is taken from it, everything else is as it was.
RefreshedFrom(op, req, body, rec) ==
  /\ rec.id = (IF body.hasID THEN body.id ELSE req.id)
  /\ rec.type = req.type
  /\ IF op = "node"
     THEN /\ rec.rel = (IF body.hasRel THEN body.rel ELSE req.rel)
          /\ rec.title = req.title
     ELSE /\ rec.rev = (IF body.hasRev THEN body.rev ELSE req.rev)
          /\ rec.parent_id = req.parent_id
          /\ rec.day = req.day
          /\ rec.building_hours = req.building_hours
          /\ rec.chat_hours = req.chat_hours
          /\ rec.note = req.note

IsAPIErrorOf(err, c) ==
  /\ err.kind = "api"
  /\ err.wraps = "an API error occurred"
  /\ err.method = c.method
  /\ err.url = c.url
  /\ err.status = c.resp.status
  /\ err.body = c.resp.body

Answered200or201(c) ==
  c.resp.net = "answered" /\ c.resp.status \in {200, 201}

CallsThat(Is(_)) == {j \in 1..Len(calls) : Is(calls[j])}

\* The month labels present in the loaded records.
LabelsOf(hs) == {FormatMonthYear(hs[i].Day) : i \in 1..Len(hs)}

\* The days of the loaded records, as (label, position in the label's
\* group) pairs.
DaysOf(hs) ==
  {<<FormatMonthYear(hs[i].Day),
     Cardinality({j \in 1..i : SameMonth(hs[j], hs[i])})>> :
       i \in 1..Len(hs)}

\* Every day of group m has had its paragraph created and its link
\* patched, both successfully.
GroupPublished(m) ==
  \A d \in 1..Len(months[m]) :
    /\ \E j \in CallsThat(IsParaPost) :
         calls[j].month = m /\ calls[j].day = d /\ calls[j].err = Nil
    /\ \E j \in CallsThat(IsNodePatch) :
         calls[j].month = m /\ calls[j].day = d /\ calls[j].err = Nil

\* C11: exactly-once publishing on success.  Whenever process() has
\* returned nil, the calls made are exactly one create-node POST per month
\* label present in the loaded records, exactly one create-paragraph POST
\* and exactly one update-node PATCH per loaded record, every one of them
\* sent and successful; and, in every state, a group's " Success" marker
\* is printed only after every day of the group was created and linked
\* (and once at most).
C11_ExactlyOnce ==
  /\ pc = "done" /\ result = Nil =>
       /\ \A j \in 1..Len(calls) : calls[j].reached /\ calls[j].err = Nil
       /\ \A k \in LabelsOf(hours) :
            Cardinality({j \in CallsThat(IsNodePost) :
                           calls[j].month = k}) = 1
       /\ Cardinality(CallsThat(IsNodePost)) = Cardinality(LabelsOf(hours))
       /\ \A kd \in DaysOf(hours) :
            /\ Cardinality({j \in CallsThat(IsParaPost) :
                              calls[j].month = kd[1]
                              /\ calls[j].day = kd[2]}) = 1
            /\ Cardinality({j \in CallsThat(IsNodePatch) :
                              calls[j].month = kd[1]
                              /\ calls[j].day = kd[2]}) = 1
       /\ Cardinality(DaysOf(hours)) = Len(hours)
       /\ Cardinality(CallsThat(IsParaPost)) = Len(hours)
       /\ Cardinality(CallsThat(IsNodePatch)) = Len(hours)
  /\ \A i \in 1..Len(out) :
       out[i][2] = " Success" =>
         /\ GroupPublished(out[i][1])
         /\ \A h \in 1..Len(out) : out[h] = out[i] => h = i

\* process() returned nil after publishing three records in two groups:
\* two node POSTs, three paragraph POSTs, three PATCHes, two markers.
C11_Witness ==
  /\ pc = "done" /\ result = Nil
  /\ Len(hours) = 3
  /\ Cardinality(LabelsOf(hours)) = 2
  /\ Len(calls) = 8
  /\ Cardinality({i \in 1..Len(out) : out[i][2] = " Success"}) = 2

=============================================================================
